---- MODULE Spec2Model ----
(***************************************************************************)
(* Model of the NestForge logging pipeline:                                *)
(*   - LoggingService   (logging.service.ts: print, setRequest, log,       *)
(*                       error, warn, debug, verbose, generateRequestId)   *)
(*   - LoggingMiddleware (logging.middleware.ts: use + 'finish' callback)  *)
(*   - bootstrap        (main.ts)                                          *)
(*                                                                         *)
(* Three specifications share the actions:                                 *)
(*   Spec           bootstrap, two requests and application calls, one day *)
(*   TransportSpec  calls outside requests over many days, any environment *)
(*   RequestSpec    the middleware alone, any x-request-id header          *)
(*                                                                         *)
(* JavaScript values are tagged records [t, v]:                            *)
(*   undefined  [t |-> "undefined", v |-> ""]                              *)
(*   null       [t |-> "null", v |-> ""]                                   *)
(*   string     [t |-> "string", v |-> its characters]                     *)
(*   number     [t |-> "number", v |-> its decimal digits]                 *)
(*   object     [t |-> "object", v |-> function from keys to values]       *)
(*   Error      [t |-> "error",  v |-> the characters of its stack]        *)
(* A Date is the record of the calendar fields its methods read (UTC).     *)
(***************************************************************************)
EXTENDS Integers, Sequences, FiniteSets, TLC

VARIABLES
    pc,               \* position of bootstrap(): "start", "created", "listening", "running", "exited"
    exitCode,         \* argument of process.exit, 0 while the process has not exited
    failedAt,         \* which bootstrap step threw ("none" while none did)
    requestMetadata,  \* LoggingService.requestMetadata of the injected (singleton) instance
    phase,            \* per request: "idle", "handling", "finished"
    ownId,            \* per request: the requestId its own setRequest call stored
    lastSet,          \* the request of the most recent setRequest call ("none" before the first)
    console,          \* lines written by the Console transport
    file,             \* entries appended by the DailyRotateFile transport
    elastic,          \* documents sent by the ElasticsearchTransport
    lastCall,         \* the most recent logging call and the entry it built
    env,              \* process.env['ELASTICSEARCH_URL'] (undefined when not set)
    elasticNode,      \* clientOpts.node of the ElasticsearchTransport (undefined before construction)
    today,            \* the current date, as a day number
    logFiles,         \* the days whose app-%DATE%.log file exists in logs/
    inbound           \* per request: the x-request-id header it arrives with (undefined when it has none)

vars == <<pc, exitCode, failedAt, requestMetadata, phase, ownId, lastSet,
          console, file, elastic, lastCall, env, elasticNode, today, logFiles,
          inbound>>

----------------------------------------------------------------------------
(* Bounds of the model *)

\* how many entries each sink takes in the model once the application runs
\* (the bootstrap line comes on top)
MaxEntries == 2

----------------------------------------------------------------------------
(* JavaScript values *)

Undef == [t |-> "undefined", v |-> ""]

Null == [t |-> "null", v |-> ""]

Str(s) == [t |-> "string", v |-> s]

Num(d) == [t |-> "number", v |-> d]

Obj(m) == [t |-> "object", v |-> m]

Err(stack) == [t |-> "error", v |-> stack]

\* the points in time new Date() returns in the model, each as the calendar
\* fields the formatting methods read
Instants ==
    { [weekday |-> "Thu", monthName |-> "Nov", year |-> "2026", month |-> "11",
       day |-> "05", hour |-> "09", minute |-> "30", second |-> "07",
       millis |-> "123"] }

\* the text of a Date: Date.prototype.toDateString, Date.prototype.toISOString,
\* or the pattern 'YYYY-MM-DD HH:mm:ss' of format.timestamp
DateText(fmt, now) ==
    CASE fmt = "toDateString" ->
            Str(now.weekday \o " " \o now.monthName \o " " \o now.day \o " " \o now.year)
      [] fmt = "toISOString" ->
            Str(now.year \o "-" \o now.month \o "-" \o now.day \o "T" \o now.hour
                \o ":" \o now.minute \o ":" \o now.second \o "." \o now.millis \o "Z")
      [] fmt = "YYYY-MM-DD HH:mm:ss" ->
            Str(now.year \o "-" \o now.month \o "-" \o now.day \o " " \o now.hour
                \o ":" \o now.minute \o ":" \o now.second)

EmptyObj == [k \in {} |-> Undef]

\* JavaScript truthiness of the values used here ("", null and undefined are falsy)
Falsy(x) == x = Undef \/ x = Null \/ x = Str("")

\* a || b
OrElse(a, b) == IF Falsy(a) THEN b ELSE a

\* { ...a, ...b }: the keys of b overlaid on those of a
Overlay(a, b) ==
    [k \in (DOMAIN a) \cup (DOMAIN b) |-> IF k \in DOMAIN b THEN b[k] ELSE a[k]]

\* the property names "0", "1", ... of the characters of a spread string
IndexKey == <<"0", "1", "2", "3", "4", "5", "6", "7", "8", "9">>

\* the own enumerable properties { ...x } copies out of x
Spread(x) ==
    CASE x.t = "object" -> x.v
      [] x.t = "string" ->
            [k \in {IndexKey[i] : i \in 1..Len(x.v)} |->
                LET i == CHOOSE j \in 1..Len(x.v) : IndexKey[j] = k
                IN  Str(SubSeq(x.v, i, i))]
      [] OTHER -> EmptyObj

\* optionalParams[i-1] of a rest-parameter array
Param(ps, i) == IF i <= Len(ps) THEN ps[i] ELSE Undef

----------------------------------------------------------------------------
(* Serialisation: JSON.stringify as used by format.json() and formatLog *)

RECURSIVE JsonValue(_)
\* what JSON.stringify keeps of a value: own properties, minus the undefined ones;
\* an Error has no enumerable property and serialises as {}
JsonValue(x) ==
    CASE x.t = "object" ->
            Obj([k \in {j \in DOMAIN x.v : x.v[j] # Undef} |-> JsonValue(x.v[k])])
      [] x.t = "error" -> Obj(EmptyObj)
      [] OTHER -> x

JsonObj(m) == JsonValue(Obj(m)).v

----------------------------------------------------------------------------
(* LoggingService: constants and configuration (constructor) *)

\* private readonly context = 'GlobalLogger'
GlobalLogger == "GlobalLogger"

Levels == {"error", "warn", "info", "verbose", "debug"}

\* the level names as JavaScript strings
LevelText ==
    [error   |-> "error",
     warn    |-> "warn",
     info    |-> "info",
     verbose |-> "verbose",
     debug   |-> "debug"]

\* winston's default (npm) severity order, most severe first
LevelRank == [error |-> 0, warn |-> 1, info |-> 2, verbose |-> 4, debug |-> 5]

Sinks == {"console", "file", "elastic"}

\* createLogger({ level: 'info', ... })
LoggerLevel == "info"

\* the minimum level each transport is configured with: Console and
\* DailyRotateFile are given none and take the logger's, Elasticsearch is
\* given level: 'info'
SinkLevel(sink) ==
    CASE sink = "console" -> LoggerLevel
      [] sink = "file"    -> LoggerLevel
      [] sink = "elastic" -> "info"

\* a transport ignoring every level filter
Admits_NoFilter(sink, level) == TRUE

\* does the transport accept an entry of this level
Admits(sink, level) == LevelRank[level] <= LevelRank[SinkLevel(sink)]

\* format.timestamp({ format: 'YYYY-MM-DD HH:mm:ss' }): sets info.timestamp
FormatTimestamp(info, now) ==
    Overlay(info, [timestamp |-> DateText("YYYY-MM-DD HH:mm:ss", now)])

\* formatLog(info): `${info.timestamp} [${info.level}] ${info.message} ${JSON.stringify(info)}`
formatLog(info) ==
    [timestamp |-> info["timestamp"], level |-> info["level"],
     message |-> info["message"], json |-> JsonObj(info)]

\* this.logger.log(level, message, entry): the info object winston builds from
\* the call, entry's keys under the level and message of the call, after the
\* logger's format
LoggerInfo(level, message, entry, now) ==
    FormatTimestamp(Overlay(entry, [level |-> Str(LevelText[level]), message |-> message]),
                    now)

\* the text wrapped in the colour escape codes of the level
Paint(level, text) == "<" \o level \o ">" \o text \o "</" \o level \o ">"

\* format.colorize({ all: true }): colours info.level and info.message
Colorize(level, info) ==
    Overlay(info, [level   |-> Str(Paint(level, info["level"].v)),
                   message |-> Str(Paint(level, info["message"].v))])

\* a transport that puts the newest entry first
Deliver_Prepend(sink, level, info, recorded) ==
    IF LevelRank[level] <= LevelRank[SinkLevel(sink)]
    THEN <<IF sink = "console"
           THEN formatLog(Colorize(level, info))
           ELSE JsonObj(info)>> \o recorded
    ELSE recorded

\* what a sink holds after the logger handed it (or not) the info object: the
\* Console transport prints formatLog of the colourised info, the file and
\* Elasticsearch transports take the logger's JSON
Deliver(sink, level, info, recorded) ==
    IF Admits(sink, level)
    THEN Append(recorded, IF sink = "console"
                          THEN formatLog(Colorize(level, info))
                          ELSE JsonObj(info))
    ELSE recorded

\* the values of the ELASTICSEARCH_URL environment variable: not set, or set
EnvValues == {Undef, Str("http://es.internal:9200")}

\* node: process.env['ELASTICSEARCH_URL'] || 'http:localhost:9200'
ElasticsearchNode(url) == OrElse(url, Str("http:localhost:9200"))

\* maxFiles: '30d'
RetentionDays == 30

\* a DailyRotateFile transport given no maxFiles: no file is ever removed
DailyFiles_KeepAll(files, day, late) == files \cup {day}

\* the daily files after the DailyRotateFile transport wrote an entry on `day`
\* (datePattern 'YYYY-MM-DD', maxFiles '30d'): the first write of a day opens
\* that day's file and removes the files created more than RetentionDays
\* days before; `late` tells whether this write comes at a later time of day
\* than a file of exactly RetentionDays days ago was created
DailyFiles(files, day, late) ==
    IF day \in files
    THEN files
    ELSE {f \in files : \/ day - f < RetentionDays
                        \/ day - f = RetentionDays /\ ~late} \cup {day}

----------------------------------------------------------------------------
(* LoggingService.print and the five logging operations *)

\* the entry object print builds (lines 67-74)
PrintEntry(level, message, ctx, metadata, now) ==
    Overlay(Overlay([timestamp |-> DateText("toDateString", now),
                     level     |-> Str(LevelText[level]),
                     context   |-> Str(GlobalLogger),
                     message   |-> message],
                    ctx),
            Spread(metadata))

\* error?.stack rendered through a template string
StackOf_Stringified(e) ==
    IF e.t = "error" THEN Str(e.v) ELSE Str("undefined")

\* error?.stack
StackOf(e) == IF e.t = "error" THEN Str(e.v) ELSE Undef

\* optionalParams[0] instanceof Error ? optionalParams[0] : undefined
ErrorArg(ps) == IF Param(ps, 1).t = "error" THEN Param(ps, 1) ELSE Undef

\* metadata read from the first optional argument, as the other operations do
ErrorMetadata_First(ps) == OrElse(Param(ps, 1), Obj(EmptyObj))

\* optionalParams.length > 1 ? optionalParams[1] : {}
ErrorMetadata(ps) == IF Len(ps) > 1 THEN ps[2] ELSE Obj(EmptyObj)

\* optionalParams[0] || {}
FirstOrEmpty(ps) == OrElse(Param(ps, 1), Obj(EmptyObj))

\* the level each operation logs at
OpLevel == [log |-> "info", error |-> "error", warn |-> "warn",
            debug |-> "debug", verbose |-> "verbose"]

Ops == DOMAIN OpLevel

\* the metadata argument each operation hands to print
PrintMetadata(op, ps) ==
    CASE op = "log"   -> Obj([metadata |-> FirstOrEmpty(ps)])
      [] op = "error" -> Obj(Overlay(Spread(ErrorMetadata(ps)),
                                     [error |-> StackOf(ErrorArg(ps))]))
      [] OTHER        -> FirstOrEmpty(ps)

\* the entry one logging operation hands to the logger
EntryOf(op, message, ps, ctx, now) ==
    PrintEntry(OpLevel[op], message, ctx, PrintMetadata(op, ps), now)

----------------------------------------------------------------------------
(* Inbound requests and the request context *)

Requests == {"A", "B"}

\* the two requests of the model: A carries an x-request-id and a user-agent
\* header, B carries neither and is mounted under a prefix (url # originalUrl)
Req(r) ==
    IF r = "A"
    THEN [requestIdHeader |-> Str("RQ-A"),
          userAgent       |-> Str("curl"),
          ip              |-> Str("1.2.3.4"),
          method          |-> Str("GET"),
          originalUrl     |-> Str("/x"),
          url             |-> Str("/x")]
    ELSE [requestIdHeader |-> Undef,
          userAgent       |-> Undef,
          ip              |-> Str("5.6.7.8"),
          method          |-> Str("POST"),
          originalUrl     |-> Str("/api/y"),
          url             |-> Str("/y")]

\* outputs of Math.random(), each given by the base-36 digits of its fraction:
\* 0, and a draw with more digits than substring keeps
RandomOutputs ==
    { "",
      "0001q7cmx9ab3w" }

\* Number.prototype.toString(36) of a number in [0, 1)
ToString36(rnd) == IF rnd = "" THEN "0" ELSE "0." \o rnd

\* String.prototype.substring(from, to), 0 <= from <= to
Substring(s, from, to) ==
    SubSeq(s, from + 1, IF to < Len(s) THEN to ELSE Len(s))

\* Math.random().toString(36).substring(2, 15)
generateRequestId(rnd) == Str(Substring(ToString36(rnd), 2, 15))

\* the values of the x-request-id header: none, an empty one, a usual one
HeaderValues == {Undef, Str(""), Str("RQ-A")}

\* a setRequest that never reads the header
RequestContext_Generated(req, rnd) ==
    [requestId |-> generateRequestId(rnd),
     userAgent |-> req.userAgent,
     ip        |-> req.ip,
     methode   |-> req.method,
     url       |-> req.originalUrl]

\* the object setRequest stores (lines 80-86)
RequestContext(req, rnd) ==
    [requestId |-> OrElse(req.requestIdHeader, generateRequestId(rnd)),
     userAgent |-> req.userAgent,
     ip        |-> req.ip,
     methode   |-> req.method,
     url       |-> req.originalUrl]

\* private requestMetadata: Record<string, unknown> = {}
InitialRequestMetadata == EmptyObj

----------------------------------------------------------------------------
(* The logging calls application code makes *)

hello == Str("hello")

failMsg == Str("fail")

\* new Error(...) caught somewhere: a failure object with a stack trace
SomeError == Err("Error: db\n at q")

userId7 == Obj([userId |-> Num("7")])

\* metadata that names a key of the request context
ownRequestId == Obj([requestId |-> Str("zz")])

svcX == Obj([svc |-> Str("X"), requestId |-> Str("zz")])

\* metadata that names keys print sets itself
ownContext ==
    Obj([requestId |-> Str("zz"), context |-> Str("Custom"), level |-> Str("fatal")])

AppCalls ==
    { [op |-> "log",     message |-> hello,   params |-> <<userId7>>],
      [op |-> "log",     message |-> hello,   params |-> <<ownRequestId>>],
      [op |-> "warn",    message |-> hello,   params |-> <<ownContext>>],
      [op |-> "debug",   message |-> hello,   params |-> <<Null>>],
      [op |-> "verbose", message |-> hello,   params |-> <<Str("hi")>>],
      [op |-> "error",   message |-> failMsg, params |-> <<SomeError, svcX>>],
      [op |-> "error",   message |-> failMsg, params |-> <<>>],
      [op |-> "error",   message |-> failMsg, params |-> <<Str("no"), svcX>>] }

\* who makes a call: code handling a request, or code outside any request
Callers == Requests \cup {"none"}

\* who makes which call in the model: the calls below the logger's level are
\* made outside any request only
CallersOf(c) ==
    IF LevelRank[OpLevel[c.op]] <= LevelRank[LoggerLevel] THEN Callers ELSE {"none"}

NoCall ==
    [op |-> "none", message |-> Undef, params |-> <<>>, caller |-> "none",
     ctx |-> EmptyObj, stored |-> "none", handling |-> {}, entry |-> EmptyObj,
     info |-> EmptyObj]

----------------------------------------------------------------------------
(* State machine *)

\* the process before bootstrap() runs
Fresh ==
    /\ pc = "start"
    /\ exitCode = 0
    /\ failedAt = "none"
    /\ requestMetadata = InitialRequestMetadata
    /\ phase = [r \in Requests |-> "idle"]
    /\ ownId = [r \in Requests |-> Undef]
    /\ lastSet = "none"
    /\ console = <<>>
    /\ file = <<>>
    /\ elastic = <<>>
    /\ lastCall = NoCall
    /\ elasticNode = Undef
    /\ today = 0
    /\ logFiles = {}

Init ==
    /\ Fresh
    /\ env = Undef
    /\ inbound = [r \in Requests |-> Req(r).requestIdHeader]

\* the entries bootstrap logged
BootEntries == IF pc = "running" THEN 1 ELSE 0

\* the model's sinks have room for the entry a call at this level delivers
Room(level) ==
    /\ Admits("console", level) => Len(console) - BootEntries < MaxEntries
    /\ Admits("file", level)    => Len(file) - BootEntries < MaxEntries
    /\ Admits("elastic", level) => Len(elastic) - BootEntries < MaxEntries

\* one call of log / error / warn / debug / verbose on a LoggingService whose
\* requestMetadata is ctx (stored by the setRequest call for request `stored`):
\* print builds the entry, the logger hands it to the transports that admit
\* its level; `now` is what the clock reads during the call
Emit(op, message, ps, ctx, stored, caller, now) ==
    LET level == OpLevel[op]
        entry == EntryOf(op, message, ps, ctx, now)
        info  == LoggerInfo(level, message, entry, now)
    IN  /\ console' = Deliver("console", level, info, console)
        /\ file'    = Deliver("file", level, info, file)
        /\ elastic' = Deliver("elastic", level, info, elastic)
        /\ logFiles' \in IF Admits("file", level)
                          THEN {DailyFiles(logFiles, today, late) : late \in BOOLEAN}
                          ELSE {logFiles}
        /\ lastCall' = [op |-> op, message |-> message, params |-> ps,
                        caller |-> caller, ctx |-> ctx, stored |-> stored,
                        handling |-> {r \in Requests : phase[r] = "handling"},
                        entry |-> entry,
                        info |-> JsonObj(info)]

(* main.ts: bootstrap() *)

\* a catch block that only reports and lets bootstrap carry on
BootstrapCatch_Continue(next) == [pc |-> next, exitCode |-> 0]

\* catch (error) { console.error(...); process.exit(1) }
BootstrapCatch(next) == [pc |-> "exited", exitCode |-> 1]

\* the value of APP_PORT
Port == Num("3000")

\* `App is running on port ${port}` (the leading emoji left out)
RunningMessage == Str("App is running on port " \o Port.v)

\* await NestFactory.create(AppModule, ...): builds the module graph, the
\* injected LoggingService included, whose constructor may throw
BootstrapCreate ==
    /\ pc = "start"
    /\ \E outcome \in {"ok", "create", "logging"} :
          IF outcome = "ok"
          THEN /\ pc' = "created"
               /\ elasticNode' = ElasticsearchNode(env)
               /\ UNCHANGED <<exitCode, failedAt>>
          ELSE /\ pc' = BootstrapCatch("created").pc
               /\ exitCode' = BootstrapCatch("created").exitCode
               /\ failedAt' = outcome
               /\ UNCHANGED elasticNode
    /\ UNCHANGED <<requestMetadata, phase, ownId, lastSet, console, file, elastic, lastCall,
                   env, today, logFiles, inbound>>

\* new LoggingService(); app.useLogger(logger); configService.getOrThrow('APP_PORT');
\* app.listen(port) is called and awaited
BootstrapListen ==
    /\ pc = "created"
    /\ \E outcome \in {"ok", "logging", "config"} :
          IF outcome = "ok"
          THEN /\ pc' = "binding"
               /\ UNCHANGED <<exitCode, failedAt>>
          ELSE /\ pc' = BootstrapCatch("binding").pc
               /\ exitCode' = BootstrapCatch("binding").exitCode
               /\ failedAt' = outcome
    /\ UNCHANGED <<requestMetadata, phase, ownId, lastSet, console, file, elastic, lastCall,
                   env, elasticNode, today, logFiles, inbound>>

\* app.listen(port) settles: the server serves requests and bootstrap logs its
\* line through its own LoggingService instance (no setRequest is ever called
\* on it), or listen rejected
BootstrapRunning ==
    /\ pc = "binding"
    /\ \E outcome \in {"ok", "listen"} :
          IF outcome = "ok"
          THEN /\ pc' = "running"
               /\ \E now \in Instants :
                     Emit("log", RunningMessage, <<>>, InitialRequestMetadata,
                          "none", "none", now)
               /\ UNCHANGED <<exitCode, failedAt>>
          ELSE /\ pc' = BootstrapCatch("running").pc
               /\ exitCode' = BootstrapCatch("running").exitCode
               /\ failedAt' = outcome
               /\ UNCHANGED <<console, file, elastic, lastCall, logFiles>>
    /\ UNCHANGED <<requestMetadata, phase, ownId, lastSet, env, elasticNode, today,
                   inbound>>

(* logging.middleware.ts and logging.service.ts at run time *)

\* a setRequest that copies the defined fields of the new context into the
\* stored object instead of replacing it
Use_Merge(r) ==
    /\ pc = "running"
    /\ phase[r] = "idle"
    /\ \E rnd \in RandomOutputs :
          LET req == [Req(r) EXCEPT !.requestIdHeader = inbound[r]]
          IN  /\ requestMetadata' = Overlay(requestMetadata,
                                            JsonObj(RequestContext(req, rnd)))
              /\ ownId' = [ownId EXCEPT ![r] = RequestContext(req, rnd)["requestId"]]
    /\ phase' = [phase EXCEPT ![r] = "handling"]
    /\ lastSet' = r
    /\ UNCHANGED <<pc, exitCode, failedAt, console, file, elastic, lastCall,
                   env, elasticNode, today, logFiles, inbound>>

\* LoggingMiddleware.use(req, res, next) up to next(): setRequest(req)
Use(r) ==
    /\ pc = "running"
    /\ phase[r] = "idle"
    /\ \E rnd \in RandomOutputs :
          LET req == [Req(r) EXCEPT !.requestIdHeader = inbound[r]]
          IN  /\ requestMetadata' = RequestContext(req, rnd)
              /\ ownId' = [ownId EXCEPT ![r] = RequestContext(req, rnd)["requestId"]]
    /\ phase' = [phase EXCEPT ![r] = "handling"]
    /\ lastSet' = r
    /\ UNCHANGED <<pc, exitCode, failedAt, console, file, elastic, lastCall,
                   env, elasticNode, today, logFiles, inbound>>

\* application code calls one of the five logging operations, while handling
\* request `caller` or outside any request
AppLog(c, caller) ==
    /\ pc = "running"
    /\ caller \in Requests => phase[caller] = "handling"
    /\ Room(OpLevel[c.op])
    /\ \E now \in Instants :
          Emit(c.op, c.message, c.params, requestMetadata, lastSet, caller, now)
    /\ UNCHANGED <<pc, exitCode, failedAt, requestMetadata, phase, ownId, lastSet,
                   env, elasticNode, today, inbound>>

\* res.statusCode
StatusCodes == {Num("200")}

\* Date.now() - startTime, in decimal digits
Durations == {"45"}

\* `HTTP ${req.method} ${req.url} - ${statusCode} (${duration}ms)`
SummaryMessage(req, status, duration) ==
    Str("HTTP " \o req.method.v \o " " \o req.url.v
        \o " - " \o status.v \o " (" \o duration \o "ms)")

\* the metadata object of the summary line (lines 124-131)
SummaryMetadata(req, status, duration) ==
    Obj([method    |-> req.method,
         url       |-> req.url,
         status    |-> status,
         duration  |-> Str(duration \o "ms"),
         userAgent |-> req.userAgent,
         ip        |-> req.ip])

\* the 'finish' callback of the response of request r
Finish(r) ==
    /\ pc = "running"
    /\ phase[r] = "handling"
    /\ Room("info")
    /\ \E status \in StatusCodes, duration \in Durations, now \in Instants :
          Emit("log", SummaryMessage(Req(r), status, duration),
               <<SummaryMetadata(Req(r), status, duration)>>, requestMetadata, lastSet, r,
               now)
    /\ phase' = [phase EXCEPT ![r] = "finished"]
    /\ UNCHANGED <<pc, exitCode, failedAt, requestMetadata, ownId, lastSet,
                   env, elasticNode, today, inbound>>

Next ==
    \/ BootstrapCreate
    \/ BootstrapListen
    \/ BootstrapRunning
    \/ \E r \in Requests : Use(r)
    \/ \E c \in AppCalls : \E caller \in CallersOf(c) : AppLog(c, caller)
    \/ \E r \in Requests : Finish(r)

Spec == Init /\ [][Next]_vars

(* The process outside any request, over many days *)

\* the numbers of days the clock moves on between two days with a write
DaySteps == {1, RetentionDays, RetentionDays + 1}

\* midnight passes n times; only the days on which something is written
\* are told apart
DayPasses(n) ==
    /\ pc = "running"
    /\ today \in logFiles
    /\ today' = today + n
    /\ UNCHANGED <<pc, exitCode, failedAt, requestMetadata, phase, ownId, lastSet,
                   console, file, elastic, lastCall, env, elasticNode, logFiles, inbound>>

TransportInit ==
    /\ Fresh
    /\ env \in EnvValues
    /\ inbound = [r \in Requests |-> Req(r).requestIdHeader]

TransportNext ==
    \/ BootstrapCreate
    \/ BootstrapListen
    \/ BootstrapRunning
    \/ \E n \in DaySteps : DayPasses(n)
    \/ \E c \in AppCalls : AppLog(c, "none")

TransportSpec == TransportInit /\ [][TransportNext]_vars

(* The middleware alone, for requests with any x-request-id header *)

RequestInit ==
    /\ Fresh
    /\ env = Undef
    /\ inbound \in [Requests -> HeaderValues]

RequestNext ==
    \/ BootstrapCreate
    \/ BootstrapListen
    \/ BootstrapRunning
    \/ \E r \in Requests : Use(r)
    \/ \E r \in Requests : Finish(r)

RequestSpec == RequestInit /\ [][RequestNext]_vars

----------------------------------------------------------------------------
(* Vocabulary of the properties *)

\* the entry has field k with value x
Has(e, k, x) == k \in DOMAIN e /\ e[k] = x

\* the metadata argument of a call, as the caller passed it: the second
\* optional argument of error, the first of the other operations
CallerMetadata(op, ps) == IF op = "error" THEN Param(ps, 2) ELSE Param(ps, 1)

\* the keys of the caller's metadata (none when it is not a map)
CallerKeys(op, ps) ==
    IF CallerMetadata(op, ps).t = "object" THEN DOMAIN CallerMetadata(op, ps).v ELSE {}

\* the five fields of a request context, by the names the data model gives them
ContextFields == {"requestId", "userAgent", "ip", "method", "url"}

\* the value of a request-context field for the request whose setRequest
\* call stored a context holding requestId id
ContextValue(r, id, field) ==
    CASE field = "requestId" -> id
      [] field = "userAgent" -> Req(r).userAgent
      [] field = "ip"        -> Req(r).ip
      [] field = "method"    -> Req(r).method
      [] field = "url"       -> Req(r).originalUrl

\* the entries a sink holds
SinkContent(sink) ==
    CASE sink = "console" -> console
      [] sink = "file"    -> file
      [] sink = "elastic" -> elastic

\* the structured entry inside what a sink recorded
Recorded(sink, x) == IF sink = "console" THEN x.json ELSE x

\* a logging call has been made
Called == lastCall.op \in Ops

----------------------------------------------------------------------------
(* C1 *)

\* C1: every log entry emitted on behalf of a request carries exactly the
\* requestId that request's own setRequest stored, also when another
\* request's setRequest ran in between (the caller's own metadata not naming
\* requestId itself).
C1_NoCrossAttribution ==
    (/\ Called
     /\ lastCall.caller \in Requests
     /\ "requestId" \notin CallerKeys(lastCall.op, lastCall.params))
    => Has(lastCall.info, "requestId", ownId[lastCall.caller])

----------------------------------------------------------------------------
(* C2 *)

\* C2: with a stored request context, log(M, meta) yields an entry that
\* holds, as fields of the entry, the five request-context fields with the
\* context's values, every key of meta with meta's value, message = M and
\* level = "info" (meta naming no request-context field).
C2_LogEntryFields ==
    (/\ lastCall.op = "log"
     /\ lastCall.stored \in Requests
     /\ CallerKeys("log", lastCall.params) # {}
     /\ CallerKeys("log", lastCall.params) \cap ContextFields = {})
    => /\ \A f \in ContextFields :
            LET x == ContextValue(lastCall.stored, lastCall.ctx["requestId"], f)
            IN  x # Undef => Has(lastCall.info, f, x)
       /\ \A k \in CallerKeys("log", lastCall.params) :
            Has(lastCall.info, k, Param(lastCall.params, 1).v[k])
       /\ Has(lastCall.info, "message", lastCall.message)
       /\ Has(lastCall.info, "level", Str(LevelText["info"]))

----------------------------------------------------------------------------
(* C3 *)

\* C3: for each of the five logging operations, a key shared by the caller's
\* metadata and the stored request context holds the caller's value in the
\* final entry.
C3_CallerMetadataWins ==
    Called =>
        \A k \in CallerKeys(lastCall.op, lastCall.params) \cap DOMAIN lastCall.ctx :
            Has(lastCall.entry, k, CallerMetadata(lastCall.op, lastCall.params).v[k])

----------------------------------------------------------------------------
(* C4 *)

\* C4: error(M, err, meta) with err a failure object yields an error-level
\* entry whose `error` field is err's stack text and which holds every key
\* of meta with meta's value; the file sink records that entry.
C4_ErrorWithFailure ==
    (lastCall.op = "error" /\ Param(lastCall.params, 1).t = "error")
    => /\ Has(lastCall.info, "level", Str(LevelText["error"]))
       /\ Has(lastCall.info, "error", Str(Param(lastCall.params, 1).v))
       /\ \A k \in CallerKeys("error", lastCall.params) :
            Has(lastCall.info, k, Param(lastCall.params, 2).v[k])
       /\ file # <<>> /\ file[Len(file)] = lastCall.info

\* an error call with a failure object and a metadata map has been recorded
C4_Witness ==
    /\ lastCall.op = "error"
    /\ Param(lastCall.params, 1) = SomeError
    /\ "svc" \in CallerKeys("error", lastCall.params)
    /\ lastCall.stored \in Requests
    /\ Len(file) = 2

----------------------------------------------------------------------------
(* C5 *)

\* C5: an error call without a failure object (no optional argument, or a
\* first optional argument that is not a failure object) yields an entry
\* with no `error` field at all, in every sink.
C5_NoErrorField ==
    (lastCall.op = "error" /\ Param(lastCall.params, 1).t # "error")
    => /\ "error" \notin DOMAIN lastCall.info
       /\ \A sink \in Sinks :
            /\ SinkContent(sink) # <<>>
            /\ LET last == Recorded(sink, SinkContent(sink)[Len(SinkContent(sink))])
               IN  /\ DOMAIN last = DOMAIN lastCall.info
                   /\ "error" \notin DOMAIN last
       /\ file[Len(file)] = lastCall.info

\* an error call whose first optional argument is not a failure object has
\* been recorded
C5_Witness ==
    /\ lastCall.op = "error"
    /\ Param(lastCall.params, 1).t = "string"
    /\ Len(elastic) = 2

----------------------------------------------------------------------------
(* C6 *)

\* the level is at or above the minimum level the sink is configured with
ConfiguredToAdmit(sink, level) ==
    LevelRank[level] <= LevelRank[SinkLevel(sink)]

\* one call at `level` building `info`: each sink configured to admit the
\* level gained exactly that one entry, every other sink gained none
DeliveredOnce(level) ==
    \A sink \in Sinks :
        IF ConfiguredToAdmit(sink, level)
        THEN /\ Len(SinkContent(sink)') = Len(SinkContent(sink)) + 1
             /\ SubSeq(SinkContent(sink)', 1, Len(SinkContent(sink))) = SinkContent(sink)
             /\ LET new == Recorded(sink, SinkContent(sink)'[Len(SinkContent(sink)')])
                IN  /\ DOMAIN new = DOMAIN lastCall'.info
                    /\ \A k \in DOMAIN new \ {"level", "message"} : new[k] = lastCall'.info[k]
                    /\ sink # "console" => new = lastCall'.info
        ELSE SinkContent(sink)' = SinkContent(sink)

\* the step is one call of a logging operation (by application code, by the
\* 'finish' callback or by bootstrap): the process runs afterwards and no
\* request entered the middleware in the step
LoggingStep ==
    /\ pc' = "running"
    /\ \A r \in Requests : phase'[r] = "handling" => phase[r] = "handling"

\* C6: one call of a logging operation of level L delivers exactly one entry
\* to each sink whose configured minimum level admits L and none to any
\* other sink.
C6_OneEntryPerAdmittingSink ==
    [][LoggingStep => DeliveredOnce(OpLevel[lastCall'.op])]_vars

\* a warn call was delivered to all three sinks and the debug call after it
\* to none
C6_Witness ==
    /\ lastCall.op = "debug"
    /\ \A sink \in Sinks : Len(SinkContent(sink)) = 2
    /\ file[2]["level"] = Str(LevelText["warn"])
    /\ elastic[2] = file[2]
    /\ console[2].json["level"] = Str(Paint("warn", LevelText["warn"]))

----------------------------------------------------------------------------
(* C7 *)

\* C7: with the default configuration no info, verbose or debug entry is
\* ever sent to the remote (Elasticsearch) sink: it holds warn and error
\* entries only.
C7_RemoteWarnAndErrorOnly ==
    \A i \in DOMAIN elastic :
        elastic[i]["level"] \in {Str(LevelText["warn"]), Str(LevelText["error"])}

----------------------------------------------------------------------------
(* C8 *)

\* C8: after setRequest for a request without an x-request-id header, the
\* stored request context holds a non-empty requestId, whatever the random
\* source returned.
C8_GeneratedIdNonEmpty ==
    (lastSet \in Requests /\ Req(lastSet).requestIdHeader = Undef)
    => /\ "requestId" \in DOMAIN requestMetadata
       /\ requestMetadata["requestId"].t = "string"
       /\ requestMetadata["requestId"].v # ""

----------------------------------------------------------------------------
(* C10 *)

\* C10: when the logging subsystem cannot be initialised during bootstrap,
\* the process has exited with status 1 and is not serving requests.
C10_FailFast ==
    failedAt = "logging"
    => /\ pc = "exited"
       /\ exitCode = 1
       /\ \A r \in Requests : phase[r] = "idle"

\* the LoggingService constructor threw after the application was created
C10_Witness ==
    /\ failedAt = "logging"
    /\ pc = "exited"
    /\ exitCode = 1

----------------------------------------------------------------------------
(* C11 *)

\* the fields of the summary line of a request
SummaryFields == {"method", "url", "status", "duration", "userAgent", "ip"}

\* the most recent call is the summary line the 'finish' callback of a
\* request logs
SummaryCall ==
    /\ lastCall.op = "log"
    /\ lastCall.caller \in Requests
    /\ SummaryFields \subseteq CallerKeys("log", lastCall.params)

\* C11: a request that entered the middleware had setRequest called for it;
\* its summary line is emitted only once its response has finished, and the
\* summary entry holds the fields method, url, status, duration, userAgent
\* and ip with the values of that request.
C11_SummaryAtFinish ==
    /\ \A r \in Requests : phase[r] # "idle" => ownId[r] # Undef
    /\ SummaryCall =>
          /\ phase[lastCall.caller] = "finished"
          /\ \A k \in SummaryFields :
                LET x == Param(lastCall.params, 1).v[k]
                IN  x # Undef => Has(lastCall.info, k, x)

----------------------------------------------------------------------------
(* C12 *)

\* x is what the sink records of the entry `info`
RecordOf(sink, x, info) ==
    /\ DOMAIN Recorded(sink, x) = DOMAIN info
    /\ \A k \in DOMAIN info \ {"level", "message"} : Recorded(sink, x)[k] = info[k]
    /\ sink # "console" => x = info

\* in one step a sink keeps what it held, in the same order, and gains at
\* most one entry, after all of them: the entry of the call just received
KeepsOrder(sink) ==
    LET old == SinkContent(sink)
        new == SinkContent(sink)'
    IN  /\ Len(new) \in {Len(old), Len(old) + 1}
        /\ SubSeq(new, 1, Len(old)) = old
        /\ Len(new) = Len(old) + 1 => RecordOf(sink, new[Len(new)], lastCall'.info)

\* C12: within each sink the entries are recorded in the order in which the
\* logging calls were received: every call's entry is put after all the
\* entries the sink already holds, and no recorded entry moves or vanishes.
C12_SinkOrder ==
    [][\A sink \in Sinks : KeepsOrder(sink)]_vars

\* the bootstrap line and, after it, an application call's entry are in
\* every sink, in the order of the calls
C12_Witness ==
    /\ lastCall.message = hello
    /\ \A sink \in Sinks :
          /\ Len(SinkContent(sink)) = 2
          /\ Recorded(sink, SinkContent(sink)[1])["message"].v
                \in {RunningMessage.v, Paint("info", RunningMessage.v)}
          /\ RecordOf(sink, SinkContent(sink)[2], lastCall.info)

----------------------------------------------------------------------------
(* C13 *)

\* the text has the shape of an ISO-8601 date and time:
\* YYYY-MM-DDTHH:mm:ss, then fraction and zone
IsIso8601(x) ==
    /\ x.t = "string"
    /\ Len(x.v) >= 19
    /\ SubSeq(x.v, 5, 5) = "-" /\ SubSeq(x.v, 8, 8) = "-"
    /\ SubSeq(x.v, 11, 11) = "T"
    /\ SubSeq(x.v, 14, 14) = ":" /\ SubSeq(x.v, 17, 17) = ":"

\* C13: the timestamp of every entry a sink records is an ISO-8601 text, and
\* every sink that received the entry of a call records the one timestamp
\* the logger's format gave that entry.
C13_IsoTimestamp ==
    \A sink \in Sinks :
        /\ \A i \in DOMAIN SinkContent(sink) :
              LET e == Recorded(sink, SinkContent(sink)[i])
              IN  "timestamp" \in DOMAIN e /\ IsIso8601(e["timestamp"])
        /\ (Called /\ ConfiguredToAdmit(sink, OpLevel[lastCall.op]))
              => LET x == SinkContent(sink)[Len(SinkContent(sink))]
                 IN  /\ Recorded(sink, x)["timestamp"] = lastCall.info["timestamp"]
                     /\ sink = "console" => x.timestamp = lastCall.info["timestamp"]

----------------------------------------------------------------------------
(* C14 *)

\* C14: the endpoint of the remote sink is the value of ELASTICSEARCH_URL
\* when the variable is set and http://localhost:9200 otherwise.
C14_RemoteEndpoint ==
    elasticNode # Undef
    => elasticNode = (IF env # Undef THEN env ELSE Str("http://localhost:9200"))

----------------------------------------------------------------------------
(* C15 *)

\* C15: when the file sink has rotated to a new daily file, the file of the
\* current day exists, no file older than the 30-day window exists, and
\* every file that is inside the window is still there.
C15_Retention ==
    [][logFiles' # logFiles
       => /\ today' \in logFiles'
          /\ \A f \in logFiles' : today' - f <= RetentionDays
          /\ \A f \in logFiles : today' - f < RetentionDays => f \in logFiles']_vars

\* the first day's file was removed at a rotation more than 30 days later,
\* while a file inside the window was kept
C15_Witness ==
    /\ today > RetentionDays
    /\ today \in logFiles
    /\ 0 \notin logFiles
    /\ \E f \in logFiles : f < today

----------------------------------------------------------------------------
(* C16 *)

\* C16 as stated: after setRequest for a request that carries an
\* x-request-id header, the stored requestId is that header's value (the
\* generator's output is stored only when the request has no such header).
C16_HeaderWins ==
    (lastSet \in Requests /\ inbound[lastSet] # Undef)
    => Has(requestMetadata, "requestId", inbound[lastSet])

\* C16, amended: after setRequest for a request whose x-request-id header is
\* a non-empty text, the stored requestId is that header's value; for a
\* request without the header, or with an empty one, it is an output of the
\* generator.
C16_NonEmptyHeaderWins ==
    lastSet \in Requests
    => IF inbound[lastSet] \notin {Undef, Str("")}
       THEN Has(requestMetadata, "requestId", inbound[lastSet])
       ELSE \E rnd \in RandomOutputs :
               Has(requestMetadata, "requestId", generateRequestId(rnd))

\* setRequest ran for a request with a non-empty header after one for a
\* request whose id came from the generator
C16_Witness ==
    /\ lastSet \in Requests
    /\ inbound[lastSet] = Str("RQ-A")
    /\ requestMetadata["requestId"] = Str("RQ-A")
    /\ \E r \in Requests \ {lastSet} :
          /\ inbound[r] = Str("")
          /\ ownId[r] = generateRequestId("0001q7cmx9ab3w")

----------------------------------------------------------------------------
(* C17 *)

\* C17: the entry of a call made while no request is being handled has no
\* request-context field (other than what the caller's own metadata names)
\* and does not hold the requestId of a request that has completed.
C17_NoContextOutsideRequests ==
    (Called /\ lastCall.handling = {})
    => /\ (DOMAIN lastCall.info) \cap (ContextFields \cup DOMAIN lastCall.ctx)
             \subseteq CallerKeys(lastCall.op, lastCall.params)
       /\ \A r \in Requests :
             phase[r] = "finished" => ~Has(lastCall.info, "requestId", ownId[r])

----------------------------------------------------------------------------
(* C18 *)

\* C18: whatever metadata the caller supplies, the entry of a logging call
\* has context = the fixed label of the service, level = the level of the
\* operation called and message = the message argument.
C18_FixedContextLevelMessage ==
    Called
    => /\ Has(lastCall.info, "context", Str(GlobalLogger))
       /\ Has(lastCall.info, "level", Str(LevelText[OpLevel[lastCall.op]]))
       /\ Has(lastCall.info, "message", lastCall.message)

----------------------------------------------------------------------------
(* C19 *)

\* the fields print sets itself
BaseFields == {"timestamp", "level", "context", "message"}

\* C19: a logging call with no metadata (no optional argument, or an absent
\* or null one) completes with an entry, and that entry has no key besides
\* those of print, of the stored request context and, for error with a
\* failure object, `error`.
C19_MissingMetadataNoKeys ==
    (Called /\ CallerMetadata(lastCall.op, lastCall.params) \in {Undef, Null})
    => /\ {"level", "message"} \subseteq DOMAIN lastCall.info
       /\ DOMAIN lastCall.info
             \subseteq BaseFields \cup DOMAIN lastCall.ctx
                       \cup (IF lastCall.op = "error" /\ Param(lastCall.params, 1).t = "error"
                             THEN {"error"}
                             ELSE {})

----------------------------------------------------------------------------
(* C20 *)

\* the context setRequest builds from request r when its requestId is id
ContextOf(r, id) ==
    [requestId |-> id,
     userAgent |-> Req(r).userAgent,
     ip        |-> Req(r).ip,
     methode   |-> Req(r).method,
     url       |-> Req(r).originalUrl]

\* the stored context is exactly what the most recent setRequest built
StoredIsLatest ==
    requestMetadata = IF lastSet = "none"
                      THEN EmptyObj
                      ELSE ContextOf(lastSet, ownId[lastSet])

\* the step is one setRequest call
SetRequestStep == \E r \in Requests : phase[r] = "idle" /\ phase'[r] = "handling"

\* C20: the stored request context is always exactly the context the most
\* recent setRequest built (empty before the first), with nothing left from
\* an earlier request; a call of log, warn, error, debug or verbose leaves
\* it unchanged, and setRequest puts no entry into any sink.
C20_ContextFrame ==
    /\ []StoredIsLatest
    /\ [][/\ LoggingStep => requestMetadata' = requestMetadata /\ lastSet' = lastSet
          /\ SetRequestStep => /\ \A sink \in Sinks : SinkContent(sink)' = SinkContent(sink)
                               /\ lastCall' = lastCall]_vars

\* setRequest for B (no user-agent) came after setRequest for A (user-agent
\* curl) and a logging call was made since
C20_Witness ==
    /\ lastSet = "B"
    /\ phase["A"] # "idle"
    /\ lastCall.op \in Ops
    /\ lastCall.stored = "B"
    /\ requestMetadata["userAgent"] = Undef

====
